---- MODULE Spec2Model ----
(***************************************************************************)
(* Session management of the chatbot page (chatbot.js): the stored         *)
(* credentials, the cached token, the proactive refresh and warning        *)
(* timers, the refresh exchange, the authenticated request wrapper, the    *)
(* visibility handler, logout and the login redirect.                      *)
(*                                                                         *)
(* The page runs on one event loop.  Every action below is one task of     *)
(* that loop: a handler from its entry up to its first await, or the code  *)
(* that resumes after an await up to the next one.  The network (business  *)
(* endpoints, /auth/refresh, /auth/logout) and the clock are the           *)
(* environment; their answers are the inputs drawn with \E.                *)
(***************************************************************************)
EXTENDS Integers, FiniteSets, Sequences, TLC

VARIABLES
    store,                \* localStorage: access_token, refresh_token, user_email
    token,                \* the module-level `token`
    refreshTimer,         \* the module-level `refreshTimer` handle (Null or a timer id)
    sessionWarningTimer,  \* the module-level `sessionWarningTimer` handle
    timers,               \* the timeouts pending in the browser
    now,                  \* Date.now(), in milliseconds
    ticks,                \* clock advances so far
    phase,                \* how far the page's start-up has come
    page,                 \* "loaded", "navigating" (location.href assigned), "unloaded"
    calls,                \* the invocations of makeAuthenticatedRequest under way
    returned,             \* what an invocation that ends in this step gives its caller
    refreshes,            \* the invocations of refreshToken that reached the network
    ended,                \* the exchange that ends in this step, and how
    logout,               \* handleLogout's position
    terminations          \* how many times the session was terminated

vars == <<store, token, refreshTimer, sessionWarningTimer, timers, now, ticks,
          phase, page, calls, returned, refreshes, ended, logout, terminations>>

-----------------------------------------------------------------------------
(* Bounds of the model *)

\* refresh exchanges sent in one page life
MaxRefreshes == 2
\* clock advances in one page life
MaxTicks == 1
\* times the clock is let run up to the next refresh timeout in one page life
MaxWaits == 2
\* the clock when the page is loaded, in seconds since the epoch
InitNowSec == 600

-----------------------------------------------------------------------------
(* Values *)

Null == 0
Absent == "absent"
NoExp == -1                     \* a token whose payload cannot be decoded or has no exp
NoId == -1                      \* the id of the token that is not there

\* lifetimes (seconds) of the tokens the auth server issues
Lifetimes == {120}
\* clock advances (milliseconds): a minute at a time
TickSteps == {60 * 1000}

Token(i, e) == [id |-> i, exp |-> e]
NoToken == Token(NoId, NoExp)   \* getItem's null, for the access token

EmptyStore == [access_token |-> NoToken, refresh_token |-> Absent, user_email |-> Absent]

\* the callers of makeAuthenticatedRequest: validateToken and loadChatHistory at
\* start-up, loadChatHistoryItem on a click
CallIds == {"validateToken", "loadChatHistory", "loadChatHistoryItem"}
RefreshIds == 1 .. MaxRefreshes

NoResult == [kind |-> "none", status |-> 0, attempt |-> 0, error |-> "none"]
Response(s, a) == [kind |-> "response", status |-> s, attempt |-> a, error |-> "none"]
Failure(e) == [kind |-> "error", status |-> 0, attempt |-> 0, error |-> e]

\* the header names a request of the page can carry: the two the wrapper sets, and two
\* only a caller can add
HeaderNames == {"Content-Type", "Authorization", "authorization", "X-Request-Id"}
\* header values: a header that is not there, a plain value, and `Bearer ${token}` for
\* the token with the given id
NoHeader == [scheme |-> "none", id |-> NoId]
Value(v) == [scheme |-> v, id |-> NoId]
Bearer(i) == [scheme |-> "Bearer", id |-> i]
\* an object with no headers: what options.headers gives when the caller passes none
NoHeaders == [n \in HeaderNames |-> NoHeader]

\* an invocation of makeAuthenticatedRequest: where it stands ("idle", "fetch1",
\* "refreshing", "fetch2", "done", and "returned" once its caller has its result), the
\* requests it sent to its endpoint, whether the first answer was 401, how the refresh
\* it awaited went ("none", "ok", "failed"), what it gave its caller, and
\* requestOptions.headers
IdleCall == [pc |-> "idle", reqs |-> 0, got401 |-> FALSE, refresh |-> "none",
             result |-> NoResult, headers |-> NoHeaders]
\* no invocation ends in this step.  Otherwise: the caller (call), the requests sent
\* (reqs), whether the first answer was 401 (got401), how the awaited refresh went
\* (refresh), what the caller gets (result), and the error a fetch of the wrapper
\* rejected with in this step (thrown)
NoReturn == [call |-> "none", reqs |-> 0, got401 |-> FALSE, refresh |-> "none",
             result |-> NoResult, thrown |-> "none"]

\* an invocation of refreshToken at its await: st is "none", "inflight", "ended", or
\* "rejected" when it ended with a response of /auth/refresh that was not ok; call
\* is the call of the wrapper that awaits it ("none" for the timer callback and the
\* visibility handler, which drop the result); seen holds what the exchanges that were
\* in flight together with it and ended before it came to (the id of the token
\* returned, NoId for a failure)
NoRefresh == [st |-> "none", call |-> "none", proactive |-> FALSE, seen |-> {}]
EndedRefresh == [NoRefresh EXCEPT !.st = "ended"]
RejectedRefresh == [NoRefresh EXCEPT !.st = "rejected"]
\* no invocation of refreshToken ends in this step.  Otherwise: the exchange (id, 0 when
\* none was sent), how it ended ("ok", "rejected", "transport", or "norefreshtoken" when
\* refreshToken returned before sending), the id of the access token returned (tok), the
\* refresh token the response carried besides it (rotated), isProactive, and seen
NoEnded == [id |-> 0, how |-> "none", tok |-> NoId, rotated |-> Absent,
            proactive |-> FALSE, seen |-> {}]
\* refreshToken(isProactive) found no refresh token and returned null
NoRefreshToken(isProactive) ==
    [NoEnded EXCEPT !.how = "norefreshtoken", !.proactive = isProactive]

Statuses == {200, 401, 500}
TransportErrors == {"network", "timeout"}
SessionExpired == "Token refresh failed"

-----------------------------------------------------------------------------
(* JWT utilities *)

\* payload.exp * 1000, or null
getTokenExpiration(t) ==
    IF t = NoToken \/ t.exp = NoExp \/ t.exp = 0 THEN Null ELSE t.exp * 1000

\* expiration - Date.now(), or null (kept apart from a difference of 0 by the flag)
getTokenTimeUntilExpiry(t, clock) ==
    IF getTokenExpiration(t) = Null
    THEN [null |-> TRUE, ms |-> 0]
    ELSE [null |-> FALSE, ms |-> getTokenExpiration(t) - clock]

isTokenExpiringSoon(t, thresholdMinutes, clock) ==
    LET u == getTokenTimeUntilExpiry(t, clock)
    IN  IF u.null THEN FALSE
        ELSE u.ms <= thresholdMinutes * 60 * 1000 /\ u.ms > 0

Max(a, b) == IF a >= b THEN a ELSE b

-----------------------------------------------------------------------------
(* Timers *)

\* a pending timeout: its id, whose callback it runs, the delay it was given, the
\* instant it is due, and the id of the token whose expiry the delay was computed from
Timer(i, k, d, clock, tok) ==
    [id |-> i, kind |-> k, delay |-> d, at |-> clock + d, tok |-> tok.id]

\* clearTimeout(h): a handle that is null, or whose timeout ran or was cleared, clears nothing
clearTimeout(pend, h) == {t \in pend : t.id # h}

\* the id setTimeout returns: one that no pending timeout has and no handle still holds
\* (the browser never hands an id out twice)
NewTimerId(pend, held) ==
    LET taken == {t.id : t \in pend} \cup held
    IN  CHOOSE i \in 1 .. (Cardinality(taken) + 1) :
            /\ i \notin taken
            /\ \A j \in 1 .. (i - 1) : j \in taken

\* const refreshThreshold = 5 * 60 * 1000
refreshThreshold == 5 * 60 * 1000
\* const warningThreshold = 2 * 60 * 1000
warningThreshold == 2 * 60 * 1000
\* a refresh delay without the 30 second floor
refreshTimeNoFloor(timeUntilExpiry) == timeUntilExpiry - refreshThreshold

\* Math.max(timeUntilExpiry - refreshThreshold, 30000)
refreshTime(timeUntilExpiry) == Max(timeUntilExpiry - refreshThreshold, 30000)

\* a warning delay that is the 10 second floor whatever time remains
warningTimeFloorOnly(timeUntilExpiry) == 10000

\* Math.max(timeUntilExpiry - warningThreshold, 10000)
warningTime(timeUntilExpiry) == Max(timeUntilExpiry - warningThreshold, 10000)

\* an arm that schedules the warning whenever it schedules the refresh
alwaysWarn(timeUntilExpiry) == TRUE

\* if (warningTime < refreshTime)
warningBeforeRefresh(timeUntilExpiry) ==
    warningTime(timeUntilExpiry) < refreshTime(timeUntilExpiry)

\* an arm that schedules without clearing what the handles hold
keepExistingTimers(rt, wt, pend) == pend

\* the head of startProactiveTokenRefresh: "Clear existing timers"
clearExistingTimers(rt, wt, pend) == clearTimeout(clearTimeout(pend, rt), wt)

\* an arm that clears the timeouts and schedules none
clearWithoutArming(rt, wt, pend, tok, clock) ==
    [refreshTimer |-> rt, sessionWarningTimer |-> wt,
     timers |-> clearExistingTimers(rt, wt, pend)]

\* startProactiveTokenRefresh(): the handles and the pending timeouts it leaves
startProactiveTokenRefresh(rt, wt, pend, tok, clock) ==
    LET cleared == clearExistingTimers(rt, wt, pend)
        u == getTokenTimeUntilExpiry(tok, clock)
        skipped == [refreshTimer |-> rt, sessionWarningTimer |-> wt, timers |-> cleared]
    IN  IF tok = NoToken THEN skipped
        ELSE IF u.null \/ u.ms = 0 \/ u.ms <= 0 THEN skipped
        ELSE LET rid == NewTimerId(cleared, {wt})
                 withRefresh == cleared \cup
                                  {Timer(rid, "refresh", refreshTime(u.ms), clock, tok)}
                 wid == NewTimerId(withRefresh, {rid, wt})
             IN  IF warningBeforeRefresh(u.ms)
                 THEN [refreshTimer |-> rid, sessionWarningTimer |-> wid,
                       timers |-> withRefresh \cup
                                    {Timer(wid, "warning", warningTime(u.ms), clock, tok)}]
                 ELSE [refreshTimer |-> rid, sessionWarningTimer |-> wt,
                       timers |-> withRefresh]

\* stopProactiveTokenRefresh(): both timeouts cleared, both handles null
stopProactiveTokenRefresh(rt, wt, pend) ==
    [refreshTimer |-> Null, sessionWarningTimer |-> Null,
     timers |-> clearTimeout(clearTimeout(pend, rt), wt)]

\* the timeouts the event loop may run now: due, and none pending is due earlier
Due(t) == /\ t \in timers
          /\ t.at <= now
          /\ \A u \in timers : u.at >= t.at

-----------------------------------------------------------------------------
(* The login redirect *)

\* a clear that removes the access token only
removeAccessTokenOnly(s) == [s EXCEPT !.access_token = NoToken]

\* localStorage.clear()
localStorageClear(s) == EmptyStore

\* window.location.href = ROUTES.AUTH: the navigation starts; the page keeps running
\* until the browser unloads it
navigate(p) == IF p = "loaded" THEN "navigating" ELSE p

-----------------------------------------------------------------------------
(* The refresh exchange *)

InFlight == {r \in RefreshIds : refreshes[r].st = "inflight"}
Unused == {r \in RefreshIds : refreshes[r].st = "none"}

\* fetch(`${API_BASE}/auth${ENDPOINTS.REFRESH}`, ...) of refreshToken(isProactive),
\* awaited by call c: the exchanges afterwards
sendRefresh(c, isProactive) ==
    LET r == CHOOSE x \in Unused : \A y \in Unused : x <= y
    IN  [x \in RefreshIds |->
            IF x = r
            THEN [st |-> "inflight", call |-> c, proactive |-> isProactive, seen |-> {}]
            ELSE refreshes[x]]

\* a proactive refreshToken(true) from its entry to its await: without a refresh token it
\* logs and returns null, otherwise it sends the exchange
ProactiveRefresh ==
    IF store.refresh_token = Absent
    THEN /\ ended' = NoRefreshToken(TRUE)
         /\ UNCHANGED refreshes
    ELSE /\ Unused # {}
         /\ refreshes' = sendRefresh("none", TRUE)
         /\ ended' = NoEnded

-----------------------------------------------------------------------------
(* The initial states *)

\* the expiry claims (seconds) of the access token found at page load: none, already
\* past, 2 minutes ahead and 15 minutes ahead
InitExps == {NoExp, InitNowSec - 60, InitNowSec + 120, InitNowSec + 900}

\* what localStorage may hold when the page is loaded: the three keys as the login page
\* wrote them, or one of them missing
FullStores ==
    {[access_token |-> Token(0, e), refresh_token |-> "rt", user_email |-> "user"] :
        e \in InitExps}
InitStores ==
    FullStores \cup
    {[access_token |-> NoToken, refresh_token |-> "rt", user_email |-> "user"],
     [access_token |-> Token(0, InitNowSec + 120), refresh_token |-> Absent,
      user_email |-> "user"],
     [access_token |-> Token(0, InitNowSec + 120), refresh_token |-> "rt",
      user_email |-> Absent]}

Init ==
    /\ store \in InitStores
    /\ token = store.access_token      \* let token = localStorage.getItem(TOKEN)
    /\ refreshTimer = Null
    /\ sessionWarningTimer = Null
    /\ timers = {}
    /\ now = InitNowSec * 1000
    /\ ticks = 0
    /\ phase = "init"
    /\ page = "loaded"
    /\ calls = [c \in CallIds |-> IdleCall]
    /\ returned = NoReturn
    /\ refreshes = [r \in RefreshIds |-> NoRefresh]
    /\ ended = NoEnded
    /\ logout = "idle"
    /\ terminations = 0

Alive == page # "unloaded"

\* the page is shown and no navigation is under way.  The input of the user (a click, a
\* change of tab) and the passing of whole minutes are taken while the page is Shown;
\* between the assignment of location.href and the unload the page still runs the tasks
\* already pending: responses, continuations and timeouts
Shown == page = "loaded"

\* nothing is being handed over: the continuations of the promises settled by the last
\* step have run
Quiet == returned = NoReturn /\ ended = NoEnded

-----------------------------------------------------------------------------
(* Start-up *)

\* the module's top level: the authentication check, then the listeners
ModuleLoad ==
    /\ phase = "init"
    /\ Alive
    /\ Quiet
    /\ IF token = NoToken \/ store.user_email = Absent
       THEN /\ page' = navigate(page)       \* window.location.href = ROUTES.AUTH; throw
            /\ phase' = "halted"
       ELSE /\ phase' = "loaded"
            /\ UNCHANGED page
    /\ returned' = NoReturn
    /\ ended' = NoEnded
    /\ UNCHANGED <<store, token, refreshTimer, sessionWarningTimer, timers, now, ticks,
                   calls, refreshes, logout, terminations>>

\* defaultOptions.headers: the content type and the bearer header of the cached token
defaultHeaders(tok) ==
    [n \in HeaderNames |->
        IF n = "Content-Type" THEN Value("application/json")
        ELSE IF n = "Authorization" THEN Bearer(tok.id)
        ELSE NoHeader]

\* a merge in which the caller's headers replace the defaults altogether
callerHeadersOnly(d, o) == o

\* { ...defaultOptions.headers, ...options.headers }: a key of the caller's object
\* replaces the default of the same name, the other defaults stay
mergeHeaders(d, o) ==
    [n \in HeaderNames |-> IF o[n] # NoHeader THEN o[n] ELSE d[n]]

\* fetch matches header names without regard to case: the values the request carries
\* under the name Authorization
authorization(h) ==
    {h[n] : n \in {m \in {"Authorization", "authorization"} : h[m] # NoHeader}}

\* makeAuthenticatedRequest(url, options) from its entry to
\* `await fetch(url, requestOptions)`, o being options.headers
request(c, o) ==
    [calls EXCEPT ![c] = [IdleCall EXCEPT !.pc = "fetch1", !.reqs = 1,
                                          !.headers = mergeHeaders(defaultHeaders(token), o)]]

\* makeAuthenticatedRequest as the page calls it: its callers pass a method, and a body
\* at most, and no headers
beginRequest(c) == request(c, NoHeaders)

\* the DOMContentLoaded handler up to `await validateToken()`
DOMContentLoaded ==
    /\ phase = "loaded"
    /\ Alive
    /\ Quiet
    /\ phase' = "validating"
    /\ calls' = beginRequest("validateToken")
    /\ returned' = NoReturn
    /\ ended' = NoEnded
    /\ UNCHANGED <<store, token, refreshTimer, sessionWarningTimer, timers, now, ticks,
                   page, refreshes, logout, terminations>>

\* response.ok
ok(status) == status >= 200 /\ status <= 299

\* validateToken after its await: a response that is not ok, or an error, redirects
validateFails(result) ==
    \/ result.kind = "error"
    \/ result.kind = "response" /\ ~ok(result.status)

\* validateToken after `await makeAuthenticatedRequest`, then the rest of the
\* DOMContentLoaded handler: startProactiveTokenRefresh() and loadChatHistory()
ValidateContinue ==
    /\ phase = "validating"
    /\ Alive
    /\ Quiet
    /\ calls["validateToken"].pc = "done"
    /\ LET failed == validateFails(calls["validateToken"].result)
           armed == startProactiveTokenRefresh(refreshTimer, sessionWarningTimer,
                                               timers, token, now)
       IN  /\ store' = IF failed THEN localStorageClear(store) ELSE store
           /\ page' = IF failed THEN navigate(page) ELSE page
           /\ terminations' = IF failed THEN terminations + 1 ELSE terminations
           /\ refreshTimer' = armed.refreshTimer
           /\ sessionWarningTimer' = armed.sessionWarningTimer
           /\ timers' = armed.timers
    /\ phase' = "running"
    /\ calls' = [beginRequest("loadChatHistory") EXCEPT
                    !["validateToken"] = [IdleCall EXCEPT !.pc = "returned"]]
    /\ returned' = NoReturn
    /\ ended' = NoEnded
    /\ UNCHANGED <<token, now, ticks, refreshes, logout>>

-----------------------------------------------------------------------------
(* makeAuthenticatedRequest *)

\* a wrapper that sends the request once more when the first response is a server
\* error
retryServerError(cr, status) ==
    IF status >= 500
    THEN [cr EXCEPT !.pc = "fetch2", !.reqs = @ + 1]
    ELSE [cr EXCEPT !.pc = "done", !.result = Response(status, 1)]

\* `return response`: the first response, whatever its status
returnResponse(cr, status) ==
    [cr EXCEPT !.pc = "done", !.result = Response(status, 1)]

\* a wrapper that hands back the first response, the 401, after the retry
returnOriginal(cr, status) ==
    [cr EXCEPT !.pc = "done", !.result = Response(401, 1)]

\* a wrapper that treats a 401 of the re-issued request like the first one and sends
\* the request once more
retryAgain(cr, status) ==
    IF status = 401
    THEN [cr EXCEPT !.pc = "fetch2", !.reqs = @ + 1]
    ELSE [cr EXCEPT !.pc = "done", !.result = Response(status, 2)]

\* `return await fetch(url, requestOptions)`: the response of the re-issued request
returnRetried(cr, status) ==
    [cr EXCEPT !.pc = "done", !.result = Response(status, 2)]

\* a catch block that reports every error of a fetch as the end of the session
rethrowAsExpired(cr, e) ==
    [cr EXCEPT !.pc = "done", !.result = Failure(SessionExpired)]

\* catch (error) { console.error(...); throw error; }
rethrow(cr, e) ==
    [cr EXCEPT !.pc = "done", !.result = Failure(e)]

\* a wrapper that re-issues the request whatever refreshToken returned
retryRegardless(cr, newToken, how) ==
    [cr EXCEPT !.pc = "fetch2", !.reqs = @ + 1, !.got401 = TRUE, !.refresh = how,
               !.headers["Authorization"] = Bearer(newToken)]

\* a wrapper that re-issues the request with the options of the first attempt
retrySameOptions(cr, newToken, how) ==
    IF newToken # NoId
    THEN [cr EXCEPT !.pc = "fetch2", !.reqs = @ + 1, !.got401 = TRUE, !.refresh = how]
    ELSE [cr EXCEPT !.pc = "done", !.got401 = TRUE, !.refresh = how,
                    !.result = Failure(SessionExpired)]

\* a wrapper that goes on waiting when refreshToken returned null
waitWithoutToken(cr, newToken, how) ==
    IF newToken # NoId
    THEN [cr EXCEPT !.pc = "fetch2", !.reqs = @ + 1, !.got401 = TRUE, !.refresh = how,
                    !.headers["Authorization"] = Bearer(newToken)]
    ELSE [cr EXCEPT !.pc = "refreshing", !.got401 = TRUE, !.refresh = how]

\* after `const newToken = await refreshToken()`, newToken being the id of the token
\* returned (NoId for null): with a token the Authorization header is set to it and
\* the request is sent again, without one `throw new Error("Token refresh failed")`;
\* how tells what refreshToken met ("ok", "norefreshtoken", "rejected", "transport")
afterRefresh(cr, newToken, how) ==
    IF newToken # NoId
    THEN [cr EXCEPT !.pc = "fetch2", !.reqs = @ + 1, !.got401 = TRUE, !.refresh = how,
                    !.headers["Authorization"] = Bearer(newToken)]
    ELSE [cr EXCEPT !.pc = "done", !.got401 = TRUE, !.refresh = how,
                    !.result = Failure(SessionExpired)]

\* the wrapper at its next await, or its promise settled.  A settled promise hands the
\* outcome to the caller in the same task: validateToken acts on it in
\* ValidateContinue, the other callers only show it
Settle(c, cr, thrown) ==
    /\ calls' = [calls EXCEPT ![c] = IF cr.pc = "done" /\ c # "validateToken"
                                     THEN [IdleCall EXCEPT !.pc = "returned"]
                                     ELSE cr]
    /\ returned' = IF cr.pc = "done"
                   THEN [call |-> c, reqs |-> cr.reqs, got401 |-> cr.got401,
                         refresh |-> cr.refresh, result |-> cr.result,
                         thrown |-> thrown]
                   ELSE [NoReturn EXCEPT !.thrown = thrown]

\* a click on a history item: loadChatHistoryItem calls the wrapper
CallStart(c) ==
    /\ phase = "running"
    /\ Shown
    /\ Quiet
    /\ c = "loadChatHistoryItem"
    /\ calls[c].pc = "idle"
    /\ calls' = beginRequest(c)
    /\ returned' = NoReturn
    /\ ended' = NoEnded
    /\ UNCHANGED <<store, token, refreshTimer, sessionWarningTimer, timers, now, ticks,
                   phase, page, refreshes, logout, terminations>>

\* the first fetch resolves with a status other than 401: `return response`
FetchRespond(c, status) ==
    /\ Alive
    /\ Quiet
    /\ calls[c].pc = "fetch1"
    /\ status # 401
    /\ Settle(c, returnResponse(calls[c], status), "none")
    /\ ended' = NoEnded
    /\ UNCHANGED <<store, token, refreshTimer, sessionWarningTimer, timers, now, ticks,
                   phase, page, refreshes, logout, terminations>>

\* the first fetch resolves with 401: `await refreshToken()`.  Without a refresh token
\* refreshToken redirects and returns null, and the wrapper throws; otherwise the
\* exchange is sent and the wrapper waits for it
FetchUnauthorized(c) ==
    /\ Alive
    /\ Quiet
    /\ calls[c].pc = "fetch1"
    /\ IF store.refresh_token = Absent
       THEN /\ store' = localStorageClear(store)
            /\ page' = navigate(page)
            /\ terminations' = terminations + 1
            /\ Settle(c, afterRefresh(calls[c], NoId, "norefreshtoken"), "none")
            /\ ended' = NoRefreshToken(FALSE)
            /\ UNCHANGED refreshes
       ELSE /\ Unused # {}
            /\ refreshes' = sendRefresh(c, FALSE)
            /\ calls' = [calls EXCEPT ![c].pc = "refreshing", ![c].got401 = TRUE]
            /\ returned' = NoReturn
            /\ ended' = NoEnded
            /\ UNCHANGED <<store, page, terminations>>
    /\ UNCHANGED <<token, refreshTimer, sessionWarningTimer, timers, now, ticks, phase,
                   logout>>

\* a fetch of the wrapper rejects (network unreachable, transport timeout): the catch
\* block logs and rethrows
FetchError(c, e) ==
    /\ Alive
    /\ Quiet
    /\ calls[c].pc \in {"fetch1", "fetch2"}
    /\ Settle(c, rethrow(calls[c], e), e)
    /\ ended' = NoEnded
    /\ UNCHANGED <<store, token, refreshTimer, sessionWarningTimer, timers, now, ticks,
                   phase, page, refreshes, logout, terminations>>

\* the re-issued fetch resolves: `return await fetch(url, requestOptions)`
RetryRespond(c, status) ==
    /\ Alive
    /\ Quiet
    /\ calls[c].pc = "fetch2"
    /\ Settle(c, returnRetried(calls[c], status), "none")
    /\ ended' = NoEnded
    /\ UNCHANGED <<store, token, refreshTimer, sessionWarningTimer, timers, now, ticks,
                   phase, page, refreshes, logout, terminations>>

-----------------------------------------------------------------------------
(* refreshToken after its await *)

\* the access token of a successful exchange r: the server stamps it with a lifetime, or
\* with a payload the page cannot decode
Issued(r, lifetime) ==
    Token(r, IF lifetime = NoExp THEN NoExp ELSE (now \div 1000) + lifetime)

\* refreshToken returns newToken (a token id, NoId for null) to whoever awaits it: a
\* call of the wrapper goes on, the timer callback and the visibility handler drop the
\* result
settleCaller(r, newToken, how) ==
    IF refreshes[r].call # "none"
    THEN Settle(refreshes[r].call,
                afterRefresh(calls[refreshes[r].call], newToken, how), "none")
    ELSE /\ returned' = NoReturn
         /\ UNCHANGED calls

\* a refreshToken that sends the exchange again when it failed
endRefreshAndRetry(r, tokId, how) ==
    [x \in RefreshIds |->
        IF x = r
        THEN (IF how = "ok" THEN EndedRefresh ELSE [refreshes[r] EXCEPT !.seen = {}])
        ELSE refreshes[x]]

\* exchange r ends with `how` ("ok", "rejected", "transport") and token tokId: the
\* exchanges still in flight note what it came to
endRefresh(r, tokId, how) ==
    [x \in RefreshIds |->
        IF x = r THEN (IF how = "rejected" THEN RejectedRefresh ELSE EndedRefresh)
        ELSE IF x \in InFlight THEN [refreshes[x] EXCEPT !.seen = @ \cup {tokId}]
        ELSE refreshes[x]]
Ended(r, how, tokId, rotated) ==
    [id |-> r, how |-> how, tok |-> tokId, rotated |-> rotated,
     proactive |-> refreshes[r].proactive, seen |-> refreshes[r].seen]

\* the refresh tokens a response of /auth/refresh may carry besides the access token:
\* none, or a new one
Rotations == {Absent, "rt2"}

\* response.ok: data.access_token is stored and cached, whatever else the response
\* carries (rotated) is not read; a proactive refresh restarts the timers; the token is
\* returned
RefreshOk(r, lifetime, rotated) ==
    /\ Alive
    /\ Quiet
    /\ r \in InFlight
    /\ LET newToken == Issued(r, lifetime)
           armed == IF refreshes[r].proactive
                    THEN startProactiveTokenRefresh(refreshTimer, sessionWarningTimer,
                                                    timers, newToken, now)
                    ELSE [refreshTimer |-> refreshTimer,
                          sessionWarningTimer |-> sessionWarningTimer,
                          timers |-> timers]
       IN  /\ store' = [store EXCEPT !.access_token = newToken]
           /\ token' = newToken
           /\ refreshTimer' = armed.refreshTimer
           /\ sessionWarningTimer' = armed.sessionWarningTimer
           /\ timers' = armed.timers
    /\ refreshes' = endRefresh(r, r, "ok")
    /\ ended' = Ended(r, "ok", r, rotated)
    /\ settleCaller(r, Issued(r, lifetime).id, "ok")
    /\ UNCHANGED <<now, ticks, phase, page, logout, terminations>>

\* a response that is not ok ("rejected") or a fetch that throws ("transport"): a
\* reactive refresh redirects to the login page; null is returned
RefreshFail(r, how) ==
    /\ Alive
    /\ Quiet
    /\ r \in InFlight
    /\ IF refreshes[r].proactive
       THEN UNCHANGED <<store, page, terminations>>
       ELSE /\ store' = localStorageClear(store)
            /\ page' = navigate(page)
            /\ terminations' = terminations + 1
    /\ refreshes' = endRefresh(r, NoId, how)
    /\ ended' = Ended(r, how, NoId, Absent)
    /\ settleCaller(r, NoId, how)
    /\ UNCHANGED <<token, refreshTimer, sessionWarningTimer, timers, now, ticks, phase,
                   logout>>

-----------------------------------------------------------------------------
(* Timers and visibility *)

\* the refresh timeout runs: `await refreshToken(true)`
RefreshTimerFire(t) ==
    /\ Alive
    /\ Quiet
    /\ Due(t)
    /\ t.kind = "refresh"
    /\ timers' = timers \ {t}
    /\ ProactiveRefresh
    /\ returned' = NoReturn
    /\ UNCHANGED <<store, token, refreshTimer, sessionWarningTimer, now, ticks, phase,
                   page, calls, logout, terminations>>

\* showSessionExpirationWarning(): the toast is shown when the cached token has a
\* decodable expiry and time left
showSessionExpirationWarning(tok, clock) ==
    LET u == getTokenTimeUntilExpiry(tok, clock)
    IN  ~(u.null \/ u.ms = 0 \/ u.ms <= 0)

\* the warning timeout runs: showSessionExpirationWarning() shows a toast at most
WarningTimerFire(t) ==
    /\ Alive
    /\ Quiet
    /\ Due(t)
    /\ t.kind = "warning"
    /\ timers' = timers \ {t}
    /\ returned' = NoReturn
    /\ ended' = NoEnded
    /\ UNCHANGED <<store, token, refreshTimer, sessionWarningTimer, now, ticks, phase,
                   page, calls, refreshes, logout, terminations>>

\* the visible branch of handlePageVisibilityChange: a cached token that expires within
\* 10 minutes and has not expired yet is refreshed proactively
visible ==
    IF token # NoToken /\ isTokenExpiringSoon(token, 10, now)
    THEN ProactiveRefresh
    ELSE /\ ended' = NoEnded
         /\ UNCHANGED refreshes

\* handlePageVisibilityChange(): hidden only logs; visible refreshes a token that
\* expires within 10 minutes
handlePageVisibilityChange(hidden) ==
    /\ Shown
    /\ Quiet
    /\ phase \in {"loaded", "validating", "running"}
    /\ IF hidden
       THEN /\ ended' = NoEnded
            /\ UNCHANGED refreshes
       ELSE visible
    /\ returned' = NoReturn
    /\ UNCHANGED <<store, token, refreshTimer, sessionWarningTimer, timers, now, ticks,
                   phase, page, calls, logout, terminations>>

-----------------------------------------------------------------------------
(* Logout *)

\* handleLogout up to `await fetch(.../logout)`; without a refresh token nothing is
\* awaited and the finally block runs at once
handleLogout ==
    /\ Shown
    /\ Quiet
    /\ phase = "running"
    /\ logout = "idle"
    /\ LET stopped == stopProactiveTokenRefresh(refreshTimer, sessionWarningTimer, timers)
       IN  /\ refreshTimer' = stopped.refreshTimer
           /\ sessionWarningTimer' = stopped.sessionWarningTimer
           /\ timers' = stopped.timers
    /\ IF store.refresh_token # Absent
       THEN /\ logout' = "awaiting"
            /\ UNCHANGED <<store, page, terminations>>
       ELSE /\ logout' = "done"
            /\ store' = localStorageClear(store)
            /\ page' = navigate(page)
            /\ terminations' = terminations + 1
    /\ returned' = NoReturn
    /\ ended' = NoEnded
    /\ UNCHANGED <<token, now, ticks, phase, calls, refreshes>>

\* a logout whose local clearing depends on the server's answer
clearOnServerSuccess(how, s) == IF how = "ok" THEN localStorageClear(s) ELSE s

\* the finally block of handleLogout: localStorage is cleared whichever way the logout
\* request ended ("ok", "rejected", "transport")
logoutFinally(how, s) == localStorageClear(s)

\* the logout request ends, whichever way ("ok", "rejected", "transport"): the finally
\* block clears localStorage and redirects
LogoutSettle(how) ==
    /\ Alive
    /\ Quiet
    /\ logout = "awaiting"
    /\ logout' = "done"
    /\ store' = logoutFinally(how, store)
    /\ page' = navigate(page)
    /\ terminations' = terminations + 1
    /\ returned' = NoReturn
    /\ ended' = NoEnded
    /\ UNCHANGED <<token, refreshTimer, sessionWarningTimer, timers, now, ticks, phase,
                   calls, refreshes>>

-----------------------------------------------------------------------------
(* The environment *)

\* time passes
Tick(d) ==
    /\ Shown
    /\ Quiet
    /\ ticks < MaxTicks
    /\ now' = now + d
    /\ ticks' = ticks + 1
    /\ returned' = NoReturn
    /\ ended' = NoEnded
    /\ UNCHANGED <<store, token, refreshTimer, sessionWarningTimer, timers, phase, page,
                   calls, refreshes, logout, terminations>>

\* the navigation that location.href started commits: the page, its timeouts and its
\* pending promises are gone; localStorage stays
Unload ==
    /\ page = "navigating"
    /\ Quiet
    /\ page' = "unloaded"
    /\ token' = NoToken
    /\ refreshTimer' = Null
    /\ sessionWarningTimer' = Null
    /\ timers' = {}
    /\ phase' = "halted"
    /\ calls' = [c \in CallIds |-> IdleCall]
    /\ returned' = NoReturn
    /\ ended' = NoEnded
    /\ refreshes' = [r \in RefreshIds |-> NoRefresh]
    /\ logout' = "idle"
    /\ UNCHANGED <<store, now, ticks, terminations>>

\* the continuations of the promises settled by the last step run, before any other
\* task: the callers take what they were handed
Resume ==
    /\ ~Quiet
    /\ returned' = NoReturn
    /\ ended' = NoEnded
    /\ UNCHANGED <<store, token, refreshTimer, sessionWarningTimer, timers, now, ticks,
                   phase, page, calls, refreshes, logout, terminations>>

Next ==
    \/ ModuleLoad
    \/ DOMContentLoaded
    \/ ValidateContinue
    \/ \E c \in CallIds : CallStart(c)
    \/ \E c \in CallIds, s \in Statuses : FetchRespond(c, s)
    \/ \E c \in CallIds : FetchUnauthorized(c)
    \/ \E c \in CallIds, e \in TransportErrors : FetchError(c, e)
    \/ \E c \in CallIds, s \in Statuses : RetryRespond(c, s)
    \/ \E r \in RefreshIds, l \in Lifetimes \cup {NoExp}, n \in Rotations :
          RefreshOk(r, l, n)
    \/ \E r \in RefreshIds, how \in {"rejected", "transport"} : RefreshFail(r, how)
    \/ \E t \in timers : RefreshTimerFire(t)
    \/ \E t \in timers : WarningTimerFire(t)
    \/ \E hidden \in BOOLEAN : handlePageVisibilityChange(hidden)
    \/ handleLogout
    \/ \E how \in {"ok", "rejected", "transport"} : LogoutSettle(how)
    \/ \E d \in TickSteps : Tick(d)
    \/ Resume
    \/ Unload

Spec == Init /\ [][Next]_vars

-----------------------------------------------------------------------------
(* startProactiveTokenRefresh on its own: every token and clock of a range, armed *)
(* once and armed again for a token that replaced it                              *)

\* the longest remaining time (seconds) of the tokens armed
MaxRemainingSec == 660
\* milliseconds the clock is past the full second when the timers are armed
ArmOffsets == {0, 1, 999}
\* the expiry claims (seconds) of the token armed first: none, and every second from
\* one in the past to MaxRemainingSec ahead
ArmExps == {NoExp} \cup ((InitNowSec - 1) .. (InitNowSec + MaxRemainingSec))
\* the expiry claims of the token that replaces it: none, past, 20 seconds, 3 minutes
\* and 10 minutes ahead
ReArmExps == {NoExp, InitNowSec - 1, InitNowSec + 20, InitNowSec + 180,
              InitNowSec + 600}

ArmInit ==
    /\ \E e \in ArmExps :
          store = [access_token |-> Token(0, e), refresh_token |-> "rt",
                   user_email |-> "user"]
    /\ token = store.access_token
    /\ refreshTimer = Null
    /\ sessionWarningTimer = Null
    /\ timers = {}
    /\ \E o \in ArmOffsets : now = InitNowSec * 1000 + o
    /\ ticks = 0
    /\ phase = "arming"
    /\ page = "loaded"
    /\ calls = [c \in CallIds |-> IdleCall]
    /\ returned = NoReturn
    /\ refreshes = [r \in RefreshIds |-> NoRefresh]
    /\ ended = NoEnded
    /\ logout = "idle"
    /\ terminations = 0

\* startProactiveTokenRefresh() with the token that was loaded
ArmFirst ==
    /\ phase = "arming"
    /\ LET armed == startProactiveTokenRefresh(refreshTimer, sessionWarningTimer,
                                               timers, token, now)
       IN  /\ refreshTimer' = armed.refreshTimer
           /\ sessionWarningTimer' = armed.sessionWarningTimer
           /\ timers' = armed.timers
    /\ phase' = "armed"
    /\ UNCHANGED <<store, token, now, ticks, page, calls, returned, refreshes, ended,
                   logout, terminations>>

\* the token is replaced (localStorage.setItem, token = newToken) and
\* startProactiveTokenRefresh() runs again, as after a proactive refresh
ArmAgain(e) ==
    /\ phase = "armed"
    /\ LET newToken == Token(1, e)
           armed == startProactiveTokenRefresh(refreshTimer, sessionWarningTimer,
                                               timers, newToken, now)
       IN  /\ store' = [store EXCEPT !.access_token = newToken]
           /\ token' = newToken
           /\ refreshTimer' = armed.refreshTimer
           /\ sessionWarningTimer' = armed.sessionWarningTimer
           /\ timers' = armed.timers
    /\ phase' = "rearmed"
    /\ UNCHANGED <<now, ticks, page, calls, returned, refreshes, ended, logout,
                   terminations>>

\* the page becomes visible after the timers were armed: the visible branch of
\* handlePageVisibilityChange
ArmVisible ==
    /\ phase \in {"armed", "rearmed"}
    /\ visible
    /\ phase' = "visible"
    /\ returned' = NoReturn
    /\ UNCHANGED <<store, token, refreshTimer, sessionWarningTimer, timers, now, ticks,
                   page, calls, logout, terminations>>

ArmNext ==
    \/ ArmFirst
    \/ \E e \in ReArmExps : ArmAgain(e)
    \/ ArmVisible

ArmSpec == ArmInit /\ [][ArmNext]_vars

-----------------------------------------------------------------------------
(* parseJWT on its own: access tokens as the strings they are, split at the dots,  *)
(* decoded, and the timers armed from what was read                                *)

\* a segment of a token string: text atob rejects or accepts (enc), what JSON.parse
\* makes of the decoded text (val: it throws, null, an object), and the exp member of
\* the object (has: missing, a string that is no number, a number; exp: its value)
Segment(enc, val, has, e) == [enc |-> enc, val |-> val, has |-> has, exp |-> e]
Opaque == Segment("base64", "notjson", "missing", 0)      \* a header, a signature
\* the segments a token may have in second place
Payloads ==
    {Segment("notbase64", "notjson", "missing", 0),
     Opaque,
     Segment("base64", "null", "missing", 0),
     Segment("base64", "object", "missing", 0),
     Segment("base64", "object", "string", 0),
     Segment("base64", "object", "number", 0),
     Segment("base64", "object", "number", InitNowSec - 60),
     Segment("base64", "object", "number", InitNowSec + 120),
     Segment("base64", "object", "number", InitNowSec + 900)}
\* the token strings: none (getItem's null), and one to four segments with every payload
\* in second place, or in first place when there is one segment only
NoJWT == <<>>
JWTs ==
    {NoJWT} \cup {<<p>> : p \in Payloads} \cup {<<Opaque, p>> : p \in Payloads}
            \cup {<<Opaque, p, Opaque>> : p \in Payloads}
            \cup {<<Opaque, p, Opaque, Opaque>> : p \in Payloads}

\* what parseJWT returns: null, or the object JSON.parse made
NullPayload == [val |-> "null", has |-> "missing", exp |-> 0]
\* parseJWT(token): token.split('.')[1] is decoded and parsed inside a try; whatever
\* throws there (split of null, replace of undefined, atob, JSON.parse) is caught
\* and null is returned
parseJWT(jwt) ==
    IF jwt = NoJWT THEN NullPayload
    ELSE IF Len(jwt) < 2 THEN NullPayload
    ELSE IF jwt[2].enc # "base64" THEN NullPayload
    ELSE IF jwt[2].val = "notjson" THEN NullPayload
    ELSE [val |-> jwt[2].val, has |-> jwt[2].has, exp |-> jwt[2].exp]

\* the token as the rest of the page sees it: the exp claim getTokenExpiration can
\* use, or none.  `!payload || !payload.exp` gives null for null, for a missing exp and
\* for 0; a string that is no number gives NaN, which getTokenTimeUntilExpiry takes
\* for null
claims(jwt) ==
    LET payload == parseJWT(jwt)
    IN  IF jwt = NoJWT THEN NoToken
        ELSE IF payload.val = "null" \/ payload.has # "number" THEN Token(0, NoExp)
        ELSE Token(0, payload.exp)

ParseInit ==
    /\ \E jwt \in JWTs :
          /\ token = jwt
          /\ store = [access_token |-> jwt, refresh_token |-> "rt", user_email |-> "user"]
    /\ refreshTimer = Null
    /\ sessionWarningTimer = Null
    /\ timers = {}
    /\ \E o \in ArmOffsets : now = InitNowSec * 1000 + o
    /\ ticks = 0
    /\ phase = "arming"
    /\ page = "loaded"
    /\ calls = [c \in CallIds |-> IdleCall]
    /\ returned = NoReturn
    /\ refreshes = [r \in RefreshIds |-> NoRefresh]
    /\ ended = NoEnded
    /\ logout = "idle"
    /\ terminations = 0

\* startProactiveTokenRefresh() with the token string that was loaded
ArmParsed ==
    /\ phase = "arming"
    /\ LET armed == startProactiveTokenRefresh(refreshTimer, sessionWarningTimer,
                                               timers, claims(token), now)
       IN  /\ refreshTimer' = armed.refreshTimer
           /\ sessionWarningTimer' = armed.sessionWarningTimer
           /\ timers' = armed.timers
    /\ phase' = "armed"
    /\ UNCHANGED <<store, token, now, ticks, page, calls, returned, refreshes, ended,
                   logout, terminations>>

ParseNext == ArmParsed

ParseSpec == ParseInit /\ [][ParseNext]_vars

-----------------------------------------------------------------------------
(* makeAuthenticatedRequest on its own: a running page whose callers pass headers   *)
(* of their own, every network call and every exchange ending sooner or later       *)

\* the headers a caller may pass in options.headers: none, one of its own, a content
\* type, an Authorization of its own (in either spelling), and an Authorization that
\* is undefined
CallerHeaders ==
    {NoHeaders,
     [NoHeaders EXCEPT !["X-Request-Id"] = Value("r1")],
     [NoHeaders EXCEPT !["Content-Type"] = Value("text/plain")],
     [NoHeaders EXCEPT !["Authorization"] = Value("Basic")],
     [NoHeaders EXCEPT !["authorization"] = Value("Basic")],
     [NoHeaders EXCEPT !["Authorization"] = Value("undefined")]}

\* the callers at work once the page runs
GatewayCalls == {"loadChatHistory", "loadChatHistoryItem"}

\* the page after its start-up: the token validated, the timers armed for it, no call
\* under way; the refresh token is stored or, the check at load not asking for it, not
GatewayInit ==
    /\ \E rt \in {"rt", Absent} :
          store = [access_token |-> Token(0, InitNowSec + 900), refresh_token |-> rt,
                   user_email |-> "user"]
    /\ token = store.access_token
    /\ now = InitNowSec * 1000
    /\ LET armed == startProactiveTokenRefresh(Null, Null, {}, token, now)
       IN  /\ refreshTimer = armed.refreshTimer
           /\ sessionWarningTimer = armed.sessionWarningTimer
           /\ timers = armed.timers
    /\ ticks = 0
    /\ phase = "running"
    /\ page = "loaded"
    /\ calls = [c \in CallIds |-> [IdleCall EXCEPT !.pc = "returned"]]
    /\ returned = NoReturn
    /\ refreshes = [r \in RefreshIds |-> NoRefresh]
    /\ ended = NoEnded
    /\ logout = "idle"
    /\ terminations = 0

\* a caller invokes makeAuthenticatedRequest(url, options) with headers o of its own
GatewayRequest(c, o) ==
    /\ phase = "running"
    /\ Shown
    /\ Quiet
    /\ calls[c].pc = "returned"
    /\ calls' = request(c, o)
    /\ returned' = NoReturn
    /\ ended' = NoEnded
    /\ UNCHANGED <<store, token, refreshTimer, sessionWarningTimer, timers, now, ticks,
                   phase, page, refreshes, logout, terminations>>

\* the fetch call c awaits settles: a response, a 401 on the first attempt, an error
Answer(c) ==
    \/ \E st \in Statuses : FetchRespond(c, st)
    \/ FetchUnauthorized(c)
    \/ \E e \in TransportErrors : FetchError(c, e)
    \/ \E st \in Statuses : RetryRespond(c, st)

\* the exchange r ends: a token, a response that is not ok, an error
Exchange(r) ==
    \/ \E l \in Lifetimes \cup {NoExp}, n \in Rotations : RefreshOk(r, l, n)
    \/ \E how \in {"rejected", "transport"} : RefreshFail(r, how)

GatewayNext ==
    \/ \E c \in GatewayCalls, o \in CallerHeaders : GatewayRequest(c, o)
    \/ \E c \in GatewayCalls : Answer(c)
    \/ \E r \in RefreshIds : Exchange(r)
    \/ Resume
    \/ Unload

\* no fetch stays pending for ever, and the continuations of settled promises run.  A
\* pending fetch cannot settle in the states where continuations are due first, so its
\* fairness is strong: the event loop runs every task that is queued again and again
GatewaySpec ==
    /\ GatewayInit
    /\ [][GatewayNext]_vars
    /\ \A c \in GatewayCalls : SF_vars(Answer(c))
    /\ \A r \in RefreshIds : SF_vars(Exchange(r))
    /\ WF_vars(Resume)

-----------------------------------------------------------------------------
(* The proactive cycle on its own: a running page whose exchanges all succeed with *)
(* a token that can be decoded, whose timeouts run when they are due               *)

\* the expiry claims (seconds) of the token the timers were armed for at start-up: 2, 4,
\* 8 and 15 minutes ahead
CycleExps == {InitNowSec + 120, InitNowSec + 240, InitNowSec + 480, InitNowSec + 900}

\* the page after its start-up: the three keys stored, the token validated, the timers
\* armed for it, no call under way
CycleInit ==
    /\ \E e \in CycleExps :
          store = [access_token |-> Token(0, e), refresh_token |-> "rt",
                   user_email |-> "user"]
    /\ token = store.access_token
    /\ now = InitNowSec * 1000
    /\ LET armed == startProactiveTokenRefresh(Null, Null, {}, token, now)
       IN  /\ refreshTimer = armed.refreshTimer
           /\ sessionWarningTimer = armed.sessionWarningTimer
           /\ timers = armed.timers
    /\ ticks = 0
    /\ phase = "running"
    /\ page = "loaded"
    /\ calls = [c \in CallIds |-> [IdleCall EXCEPT !.pc = "returned"]]
    /\ returned = NoReturn
    /\ refreshes = [r \in RefreshIds |-> NoRefresh]
    /\ ended = NoEnded
    /\ logout = "idle"
    /\ terminations = 0

\* the pending refresh timeouts that are due
DueRefreshTimers == {t \in timers : t.kind = "refresh" /\ t.at <= now}

\* time passes until the pending refresh timeout is due
Wait ==
    /\ Shown
    /\ Quiet
    /\ ticks < MaxWaits
    /\ DueRefreshTimers = {}
    /\ \E t \in timers :
          /\ t.kind = "refresh"
          /\ now' = t.at
    /\ ticks' = ticks + 1
    /\ returned' = NoReturn
    /\ ended' = NoEnded
    /\ UNCHANGED <<store, token, refreshTimer, sessionWarningTimer, timers, phase, page,
                   calls, refreshes, logout, terminations>>

\* a timeout that is due runs
TimerFire ==
    \/ \E t \in timers : RefreshTimerFire(t)
    \/ \E t \in timers : WarningTimerFire(t)

\* the exchange r ends with a token that can be decoded and has time left
ExchangeOk(r) == \E l \in Lifetimes, n \in Rotations : RefreshOk(r, l, n)

CycleNext ==
    \/ Wait
    \/ TimerFire
    \/ \E hidden \in BOOLEAN : handlePageVisibilityChange(hidden)
    \/ \E r \in RefreshIds : ExchangeOk(r)
    \/ Resume

\* the clock runs, due timeouts run, no exchange stays pending for ever, and the
\* continuations of settled promises run
CycleSpec ==
    /\ CycleInit
    /\ [][CycleNext]_vars
    /\ WF_vars(Wait)
    /\ WF_vars(TimerFire)
    /\ \A r \in RefreshIds : WF_vars(ExchangeOk(r))
    /\ WF_vars(Resume)

-----------------------------------------------------------------------------
(* Properties *)

\* the pending timeouts of each kind
RefreshTimers == {t \in timers : t.kind = "refresh"}
WarningTimers == {t \in timers : t.kind = "warning"}

\* the ways a refresh can fail for the wrapper that awaits it
RefreshFailures == {"norefreshtoken", "rejected", "transport"}

\* C1: single-flight refresh -- however refreshToken is invoked (timer, visibility
\* handler, the 401 path of any gateway call), no second request to the refresh
\* endpoint is outstanding at the same time as another.
C1_SingleFlight == Cardinality(InFlight) <= 1

\* C2: all callers of refreshToken that overlap resolve to the same outcome -- when an
\* exchange ends, every exchange that was in flight together with it and ended before
\* it came to the same token, or to a failure as well.
C2_SameOutcome == \A o \in ended.seen : o = ended.tok

\* C3: a gateway call that got a 401 and whose reactive refresh succeeded re-issues the
\* request exactly once, and what its caller receives is the response of the re-issued
\* request, whatever its status, never the first 401.
C3_RetriedOnce ==
    /\ \A c \in CallIds : calls[c].pc = "fetch2" => calls[c].reqs = 2
    /\ (returned.got401 /\ returned.refresh = "ok") =>
          /\ returned.reqs = 2
          /\ returned.result.kind = "response" => returned.result.attempt = 2

C3_Witness ==
    /\ returned.got401
    /\ returned.refresh = "ok"
    /\ returned.reqs = 2
    /\ returned.result = Response(500, 2)

\* C4: a gateway call that got a 401 and whose reactive refresh failed, for whatever
\* reason, ends with the SessionExpired failure and never sends its request again.
C4_ExpiredNotRetried ==
    /\ \A c \in CallIds : calls[c].pc = "fetch2" => calls[c].refresh = "ok"
    /\ (returned.got401 /\ returned.refresh \in RefreshFailures) =>
          /\ returned.result = Failure(SessionExpired)
          /\ returned.reqs = 1

C4_Witness ==
    /\ returned.got401
    /\ returned.refresh = "rejected"
    /\ returned.result = Failure(SessionExpired)
    /\ returned.reqs = 1

\* C5: bounded retry -- an invocation of the gateway sends 1 or 2 requests to its
\* endpoint, never more; a 401 of the re-issued request is returned as it is, with no
\* further refresh and no further request.
C5_BoundedRetry ==
    /\ \A c \in CallIds : calls[c].reqs <= 2
    /\ returned.call # "none" => returned.reqs \in {1, 2}
    /\ returned.reqs = 2 => returned.got401 /\ returned.refresh = "ok"

C5_Witness ==
    /\ returned.reqs = 2
    /\ returned.result = Response(401, 2)
    /\ \A c \in CallIds : calls[c].pc # "refreshing"

\* C6: a transport error of a request of the gateway (a timeout included) reaches the
\* caller as that same error, in a step that sends no refresh, re-issues nothing and
\* leaves localStorage as it was.
C6_TransportErrorPropagated ==
    [][returned'.thrown # "none" =>
          /\ returned'.result = Failure(returned'.thrown)
          /\ refreshes' = refreshes
          /\ store' = store
          /\ \A c \in CallIds : calls'[c].reqs <= calls[c].reqs]_vars

C6_Witness ==
    /\ returned.thrown = "timeout"
    /\ returned.result = Failure("timeout")
    /\ store.refresh_token # Absent

\* C7: when the session is terminated, by redirectToLogin or by handleLogout, the
\* store is left empty: no access token, no refresh token, no user email.
C7_StoreEmptyAfterTerminate ==
    [][terminations' # terminations => store' = EmptyStore]_vars

C7_Witness ==
    /\ terminations > 0
    /\ page = "navigating"
    /\ logout = "done"
    /\ store = EmptyStore

\* C8: when the session is terminated, by logout, by a refresh that failed or by a
\* failed validation at start-up, no refresh timer and no warning timer is pending.
C8_NoTimersAfterTerminate ==
    [][terminations' # terminations => timers' = {}]_vars

\* C9: at most one refresh timer and at most one warning timer is pending, in every
\* state: every arm cancels the pair armed before it.
C9_OneTimerPair ==
    /\ Cardinality(RefreshTimers) <= 1
    /\ Cardinality(WarningTimers) <= 1

\* a proactive refresh has just re-armed the timers of a running page; the warning
\* timer got an id above 2 because the handles still held the pair armed before
C9_Witness ==
    /\ ended.how = "ok"
    /\ ended.proactive
    /\ phase = "running"
    /\ Cardinality(RefreshTimers) = 1
    /\ Cardinality(WarningTimers) = 1
    /\ sessionWarningTimer > 2

\* C10: after a successful refresh, proactive or reactive, that brought a token with a
\* decodable expiry in the future, exactly one refresh timer is pending and at most
\* one warning timer.
C10_ArmedAfterRefresh ==
    (/\ ended.how = "ok"
     /\ ~getTokenTimeUntilExpiry(token, now).null
     /\ getTokenTimeUntilExpiry(token, now).ms > 0) =>
        /\ Cardinality(RefreshTimers) = 1
        /\ Cardinality(WarningTimers) <= 1

\* startProactiveTokenRefresh has just run
Armed == phase \in {"armed", "rearmed"}

\* the session was terminated: localStorage is empty and the login redirect is under way
Terminated == store = EmptyStore /\ page # "loaded"

\* C11: a successful refresh re-arms the timers against the new token whatever its
\* reason -- after a successful reactive refresh a refresh timer is pending and it is
\* the one computed from the new access token, not from the replaced one.
C11_RearmedAfterReactive ==
    LET u == getTokenTimeUntilExpiry(token, now)
    IN  (ended.how = "ok" /\ ~ended.proactive /\ ~u.null /\ u.ms > 0) =>
            /\ RefreshTimers # {}
            /\ \A t \in RefreshTimers : t.at = now + refreshTime(u.ms)

\* C17: a successful refresh writes the new access token to localStorage, and the
\* stored refresh token is the one the response carried, if it carried one, and the
\* one stored before otherwise.
C17_RotatedRefreshTokenStored ==
    [][ended'.how = "ok" =>
          /\ store'.access_token.id = ended'.tok
          /\ store'.refresh_token = IF ended'.rotated # Absent THEN ended'.rotated
                                    ELSE store.refresh_token]_vars

\* C18: a refresh that the server rejects terminates the session in either mode --
\* after it, proactive or reactive, localStorage is empty and the login redirect is
\* under way.
C18_RejectedTerminates == ended.how = "rejected" => Terminated

\* C19: refreshToken invoked without a stored refresh token sends no request, fails,
\* and terminates the session, proactive or reactive.
C19_NoRefreshTokenTerminates ==
    ended.how = "norefreshtoken" => (ended.id = 0 /\ Terminated)

\* C20: a transport failure of the refresh exchange is not terminal -- after it,
\* proactive or reactive, localStorage holds the same access token, refresh token and
\* user email as before, and the session is not terminated.
C20_TransportNotTerminal ==
    [][ended'.how = "transport" =>
          /\ store' = store
          /\ page' = page
          /\ terminations' = terminations]_vars

\* the time the cached token has left, in milliseconds (0 when it cannot be told)
Remaining == getTokenTimeUntilExpiry(token, now).ms
Decodable == ~getTokenTimeUntilExpiry(token, now).null

\* C12: for a token with a decodable expiry and time left, the arm schedules the
\* refresh timer strictly before the token expires (delay < time left), also when
\* less than 30 seconds are left.
C12_RefreshBeforeExpiry ==
    (Armed /\ Decodable /\ Remaining > 0) =>
        /\ RefreshTimers # {}
        /\ \A t \in RefreshTimers : t.delay < Remaining

\* C13: a warning timer the arm schedules has a delay strictly smaller than the
\* refresh timer of the same arm; it is never due at or after the refresh timer.
C13_WarningBeforeRefresh ==
    Armed => \A w \in WarningTimers :
                 /\ RefreshTimers # {}
                 /\ \A t \in RefreshTimers : w.delay < t.delay /\ w.at < t.at

C13_Witness ==
    /\ phase = "rearmed"
    /\ WarningTimers # {}
    /\ RefreshTimers # {}

\* C14: an arm with a token whose remaining time is null or not positive leaves no
\* timer pending: it schedules none and the pair armed before is cleared.
C14_SkippedArmLeavesNoTimers ==
    (Armed /\ (~Decodable \/ Remaining <= 0)) => timers = {}

\* the arm was skipped while the handles held the pair armed before
C14_Witness ==
    /\ phase = "rearmed"
    /\ ~Decodable
    /\ refreshTimer # Null
    /\ sessionWarningTimer # Null
    /\ timers = {}

\* C15: for every positive remaining time r the arm sets the refresh delay to
\* max(r - 300000, 30000) and the delay of a warning timer it schedules to
\* max(r - 120000, 10000); r = 10 minutes gives a refresh in 5 minutes and no warning.
C15_Delays ==
    (Armed /\ Decodable /\ Remaining > 0) =>
        /\ Cardinality(RefreshTimers) = 1
        /\ \A t \in RefreshTimers :
              t.delay = IF Remaining - 300000 > 30000 THEN Remaining - 300000
                        ELSE 30000
        /\ \A w \in WarningTimers :
              w.delay = IF Remaining - 120000 > 10000 THEN Remaining - 120000
                        ELSE 10000
        /\ Remaining = 600000 =>
              /\ \A t \in RefreshTimers : t.delay = 300000
              /\ WarningTimers = {}

C15_Witness ==
    /\ phase = "armed"
    /\ Remaining = 600000
    /\ \E t \in RefreshTimers : t.delay = 300000
    /\ WarningTimers = {}

\* C16, as stated: for a token that expires 3 minutes from now the refresh timer is
\* clamped to 30 seconds and the warning timer to 10 seconds, and the warning timer
\* is armed.
C16_ThreeMinutesAsStated ==
    (Armed /\ Decodable /\ Remaining = 180000) =>
        /\ \E t \in RefreshTimers : t.delay = 30000
        /\ \E w \in WarningTimers : w.delay = 10000

\* C16, amended: for a token that expires 3 minutes from now the refresh timer is
\* clamped to 30 seconds; the warning delay is max(180000 - 120000, 10000) = 60000,
\* not clamped and not before the refresh timer, so no warning timer is armed.
C16_ThreeMinutes ==
    (Armed /\ Decodable /\ Remaining = 180000) =>
        /\ Cardinality(RefreshTimers) = 1
        /\ \A t \in RefreshTimers : t.delay = 30000
        /\ WarningTimers = {}

C16_Witness ==
    /\ phase = "armed"
    /\ Decodable
    /\ Remaining = 180000
    /\ \E t \in RefreshTimers : t.delay = 30000

\* the exchanges that ended with a response that was not ok
Rejected == {r \in RefreshIds : refreshes[r].st = "rejected"}
\* the exchanges this step sends
Sent == {r \in RefreshIds : refreshes[r].st # "inflight" /\ refreshes'[r].st = "inflight"}

C22_NoRefreshAfterRejection ==
    [][Rejected # {} => \A r \in Sent : refreshes'[r].call = "none"]_vars

\* C23: a terminal error reaches the terminator exactly once -- short of a logout, the
\* session is terminated at most once in a page life, not once per failed caller.
C23_TerminatedOnce == logout = "idle" => terminations <= 1

\* C24: once the session is terminated, the result of a refresh that was in flight is
\* discarded -- when it completes successfully, localStorage stays empty and no timer is
\* armed.
C24_LateRefreshDiscarded ==
    [][(terminations > 0 /\ ended'.how = "ok") =>
          /\ store' = EmptyStore
          /\ timers' \subseteq timers]_vars

\* the access token and the refresh token are stored together or not at all, and the
\* user email is stored whenever the access token is
Consistent(s) ==
    /\ (s.access_token = NoToken) <=> (s.refresh_token = Absent)
    /\ s.access_token # NoToken => s.user_email # Absent

\* C25: in every state localStorage holds the access token and the refresh token both
\* or neither, and the user email whenever it holds the access token; no step of the
\* page takes a store of that kind to one that is not.
C25_StoreConsistent ==
    [][Consistent(store) => Consistent(store')]_vars

\* C26: when the page becomes visible with a cached token whose remaining time is below
\* 10 minutes -- zero or negative included -- a proactive refresh is started.
C26_VisibleRefreshes ==
    (phase = "visible" /\ Decodable /\ Remaining < 10 * 60 * 1000) => InFlight # {}

\* C27: logout is best-effort towards the server -- whether the logout request succeeds,
\* is answered with a failure status, fails at transport level or is not sent at all,
\* the step that ends handleLogout leaves localStorage cleared and the login redirect
\* under way.
C27_LogoutAlwaysClears ==
    [][(logout # "done" /\ logout' = "done") =>
          /\ store' = EmptyStore
          /\ page' # "loaded"]_vars

\* handleLogout has ended and nothing else has cleared localStorage; the refresh still
\* in flight was sent with the stored refresh token, so handleLogout found that token
\* and awaited its request
C27_Witness ==
    /\ logout = "done"
    /\ terminations = 1
    /\ InFlight # {}
    /\ store = EmptyStore
    /\ page = "navigating"

\* one of the three stored fields is absent
Incomplete(s) ==
    \/ s.access_token = NoToken
    \/ s.refresh_token = Absent
    \/ s.user_email = Absent

\* C28: at startup a store with any of the three fields absent is no session -- once the
\* module has loaded with such a store (and nothing has cleared it since), the page is
\* being redirected to the login, no authenticated request has been started and no
\* timer is pending.
C28_IncompleteStoreIsNoSession ==
    (phase # "init" /\ terminations = 0 /\ Incomplete(store)) =>
        /\ page # "loaded"
        /\ timers = {}
        /\ \A c \in CallIds : calls[c].pc = "idle"

\* C29: a non-success status from the validate endpoint takes the path of a 401 --
\* whenever validateToken terminates the session, its request has been through a
\* reactive refresh first (and, the refresh succeeding, one retry), whatever the
\* non-success status was.
C29_ValidateFailureRefreshes ==
    [][(phase = "validating" /\ phase' = "running" /\ terminations' > terminations) =>
          LET v == calls["validateToken"]
          IN  /\ v.got401
              /\ v.refresh # "none"
              /\ v.refresh = "ok" => v.reqs = 2]_vars

\* C30: a gateway call whose first response has a status other than 401 hands that
\* response to its caller untouched, has sent exactly one request, has awaited no
\* refresh, and the step on which it returns leaves localStorage, the cached token, the
\* timers and the refreshes as they were.
C30_PassThrough ==
    [][(returned'.call # "none" /\ ~returned'.got401
                                /\ returned'.result.kind = "response") =>
          /\ returned'.result.attempt = 1
          /\ returned'.result.status # 401
          /\ returned'.reqs = 1
          /\ returned'.refresh = "none"
          /\ store' = store
          /\ token' = token
          /\ timers' = timers
          /\ refreshTimer' = refreshTimer
          /\ sessionWarningTimer' = sessionWarningTimer
          /\ refreshes' = refreshes]_vars

\* a call has handed a server error to its caller while the timers are armed and a
\* refresh is in flight
C30_Witness ==
    /\ returned.call = "loadChatHistoryItem"
    /\ ~returned.got401
    /\ returned.result = Response(500, 1)
    /\ timers # {}
    /\ InFlight # {}

\* the calls of the wrapper that wait for a fetch or for refreshToken
Pending == {c \in CallIds : calls[c].pc \in {"fetch1", "refreshing", "fetch2"}}

\* C31: the request re-issued after a successful reactive refresh carries the access
\* token that refresh returned as its bearer credential, and no longer the bearer
\* header of the request that got the 401.
C31_RetryCarriesNewToken ==
    [][\A c \in CallIds :
          (calls[c].pc = "refreshing" /\ calls'[c].pc = "fetch2") =>
              /\ ended'.how = "ok"
              /\ calls'[c].headers["Authorization"] = Bearer(ended'.tok)
              /\ authorization(calls'[c].headers) \cap
                     {Bearer(i) : i \in (0 .. MaxRefreshes) \ {ended'.tok}} = {}]_vars

\* a request was re-issued with the token of the exchange that just ended, by a call
\* whose caller had passed an Authorization header of its own spelling
C31_Witness ==
    /\ ended.how = "ok"
    /\ \E c \in CallIds :
          /\ calls[c].pc = "fetch2"
          /\ calls[c].headers["Authorization"] = Bearer(ended.tok)
          /\ calls[c].headers["authorization"] = Value("Basic")

\* the proactive exchanges in flight
ProactiveInFlight == {r \in InFlight : refreshes[r].proactive}

\* C32: the self-renewing cycle -- every exchange succeeding with a token that has time
\* left and due timeouts running, each proactive refresh that completes leaves exactly
\* one refresh timer pending, held by the handle and computed from the new token; and
\* a pending refresh timer leads to the next proactive refresh, as long as the clock
\* may still reach it and an exchange may still be sent.
C32_SelfRenewing ==
    /\ []((ended.how = "ok" /\ ended.proactive) =>
            /\ Cardinality(RefreshTimers) = 1
            /\ \A t \in RefreshTimers :
                  /\ t.id = refreshTimer
                  /\ t.at = now + refreshTime(Remaining))
    /\ (/\ RefreshTimers # {}
        /\ Unused # {}
        /\ (ticks < MaxWaits \/ DueRefreshTimers # {})) ~> (ProactiveInFlight # {})

\* the cycle has gone round: the first proactive refresh completed and armed a refresh
\* timer for its token, that timer ran (none is pending) and sent the second exchange
C32_Witness ==
    /\ token.id = 1
    /\ RefreshTimers = {}
    /\ refreshes[2].st = "inflight"
    /\ refreshes[2].proactive

\* the timeout t runs in this step: it is no longer pending, and the step is neither an
\* arm, nor a stop, nor the unload, which change a handle, the token or the page
Fired(t) ==
    /\ t \in timers
    /\ t.at <= now
    /\ timers' = timers \ {t}
    /\ UNCHANGED <<token, refreshTimer, sessionWarningTimer, page>>

\* C33: no session-expiring warning is shown for a token that a refresh has replaced --
\* whenever a warning timeout runs and shows its notification, the cached token is
\* still the one the timeout was armed for.
C33_NoWarningAfterRefresh ==
    [][\A t \in WarningTimers :
          (Fired(t) /\ showSessionExpirationWarning(token, now)) =>
              t.tok = token.id]_vars

\* C34: terminating is idempotent -- a step that terminates a session already terminated
\* leaves localStorage empty and no timer pending, as the first termination did.
C34_TerminateIdempotent ==
    [][(terminations > 0 /\ terminations' > terminations) =>
          /\ store' = EmptyStore
          /\ timers' = {}]_vars

\* a token string that is not a well-formed JWT with a numeric expiry: none, not three
\* segments, a middle segment that is not base64, a payload that is not JSON, a
\* payload without a numeric exp
Malformed(jwt) ==
    \/ jwt = NoJWT
    \/ Len(jwt) # 3
    \/ jwt[2].enc # "base64"
    \/ jwt[2].val # "object"
    \/ jwt[2].has # "number"

\* C35: the claim reader fails soft -- for every malformed token string (absent, not
\* three segments, middle segment not base64, payload not JSON, no numeric exp) the
\* expiry read is null, and the arm that follows schedules no timer.
C35_FailsSoft ==
    (phase = "armed" /\ Malformed(token)) =>
        /\ getTokenTimeUntilExpiry(claims(token), now).null
        /\ timers = {}

\* C36: every request the wrapper has issued carries an Authorization header, whatever
\* headers the caller passed: the caller can replace its value, not take it away.
C36_AlwaysAuthorization ==
    \A c \in Pending : authorization(calls[c].headers) # {}

\* a request is out whose caller passed headers of its own: an Authorization that
\* replaced the bearer, or another header beside it
C36_Witness ==
    \E c \in Pending :
        /\ calls[c].pc = "fetch1"
        /\ calls[c].headers["Authorization"] = Value("Basic")
        /\ \E d \in Pending : calls[d].headers["X-Request-Id"] # NoHeader

\* C37: when the last of a group of overlapping exchanges completes with a token,
\* localStorage holds the token of the exchange issued last among those that returned
\* one: the response of an exchange issued earlier does not overwrite a newer token.
C37_NewestTokenKept ==
    (ended.how = "ok" /\ InFlight = {}) =>
        \A o \in ended.seen : store.access_token.id >= o

\* C38: while the page lives, whenever localStorage holds an access token the cached
\* `token` is that token, and once a termination has emptied localStorage the cache
\* does not stay on the token that is gone.
C38_CacheMatchesStore ==
    Alive =>
        /\ store.access_token # NoToken => token = store.access_token
        /\ (terminations > 0 /\ store.access_token = NoToken) => token = NoToken

\* C39: the arm schedules a warning timer if and only if the token has a decodable
\* expiry and its remaining time is positive and below 150 seconds; with 150 seconds
\* or more remaining no warning timer is armed.
C39_WarningOnlyBelow150 ==
    Armed => (WarningTimers # {} <=>
                 (Decodable /\ Remaining > 0 /\ Remaining < 150 * 1000))

\* armed a millisecond below the 150 seconds: the warning timer is there, due 30
\* seconds less a millisecond after the arm
C39_Witness ==
    /\ Armed
    /\ Remaining = 150 * 1000 - 1
    /\ \E w \in WarningTimers : w.delay = 29999

\* C40: every invocation of the wrapper ends -- each fetch and each exchange settling
\* sooner or later, a call that waits hands its caller a response or an error (unless
\* the page is unloaded first); it neither waits for ever nor loops.
C40_GatewayTerminates ==
    \A c \in GatewayCalls :
        (c \in Pending) ~> (returned.call = c \/ page = "unloaded")

\* a call that went through a 401, a refresh and the re-issued request has handed the
\* second response to its caller
C40_Witness ==
    /\ returned.call \in GatewayCalls
    /\ returned.got401
    /\ returned.reqs = 2
    /\ returned.result.kind = "response"
    /\ page = "loaded"

====
